---------------------------- MODULE Spec2Model ----------------------------
(***************************************************************************)
(* A model of the fundingpips_scalper core: the signal-to-trade pipeline   *)
(* (strategy.py) and the reward evaluator (fundingpips_reward.py).         *)
(*                                                                         *)
(* Numbers.  Python floats are modelled as exact rationals [n, d] with     *)
(* d > 0 in lowest terms, extended with the three IEEE specials            *)
(* NaN = 0/0, +inf = 1/0 and -inf = -1/0.  Rounding error of binary        *)
(* floating point is not modelled.                                         *)
(***************************************************************************)
EXTENDS Integers, Sequences, FiniteSets, TLC

VARIABLES
    fn,            \* the function of the last completed call ("none" at start)
    args,          \* its arguments
    ret,           \* its result
    pc,            \* position inside generate_signals ("idle" when not running)
    params,        \* arguments of the running generate_signals call
    df,            \* its sorted table with the indicator columns
    signals,       \* its signal array
    i,             \* index of the next bar of the entry loop (1-based)
    trade_count,   \* local trade counter of the entry loop
    result,        \* proposals emitted so far
    equity_curve,  \* the stub equity curve of the drawdown guard
    sklearn        \* what the import inside rf_filter did in the running call:
                   \* "untried", "imported" or "missing"

vars == <<fn, args, ret, pc, params, df, signals, i, trade_count, result,
          equity_curve, sklearn>>

-----------------------------------------------------------------------------
(* Float arithmetic as exact rationals                                     *)

Abs(x) == IF x < 0 THEN -x ELSE x

Sign(x) == IF x < 0 THEN -1 ELSE IF x > 0 THEN 1 ELSE 0

RECURSIVE Gcd(_, _)
Gcd(a, b) == IF b = 0 THEN a ELSE Gcd(b, a % b)

NaN == [n |-> 0, d |-> 0]

IsNaN(x) == x.d = 0 /\ x.n = 0

IsInf(x) == x.d = 0 /\ x.n # 0

IsFinite(x) == x.d # 0

\* the float n/d; a zero denominator gives IEEE's inf or nan (numpy division)
Rat(n, d) ==
    IF d = 0 THEN [n |-> Sign(n), d |-> 0]
    ELSE LET g == Gcd(Abs(n), Abs(d))
         IN  [n |-> Sign(d) * (n \div g), d |-> Abs(d) \div g]

Num(k) == [n |-> k, d |-> 1]

RMul(x, y) ==
    IF IsNaN(x) \/ IsNaN(y) THEN NaN
    ELSE IF x.d = 0 \/ y.d = 0 THEN [n |-> Sign(x.n) * Sign(y.n), d |-> 0]
    ELSE LET g1 == Gcd(Abs(x.n), y.d)
             g2 == Gcd(Abs(y.n), x.d)
         IN  IF x.n = 0 \/ y.n = 0 THEN Num(0)
             ELSE [n |-> (x.n \div g1) * (y.n \div g2),
                   d |-> (x.d \div g2) * (y.d \div g1)]

RNeg(x) == [n |-> -x.n, d |-> x.d]

RAdd(x, y) ==
    IF IsNaN(x) \/ IsNaN(y) THEN NaN
    ELSE IF x.d = 0 /\ y.d = 0 THEN (IF x.n = y.n THEN x ELSE NaN)
    ELSE IF x.d = 0 THEN x
    ELSE IF y.d = 0 THEN y
    ELSE LET g == Gcd(x.d, y.d)
         IN  Rat(x.n * (y.d \div g) + y.n * (x.d \div g), (x.d \div g) * y.d)

RSub(x, y) == RAdd(x, RNeg(y))

\* x / y as numpy divides: x / 0 is inf or nan
RDiv(x, y) ==
    IF IsNaN(x) \/ IsNaN(y) THEN NaN
    ELSE IF y.d = 0 THEN (IF x.d = 0 THEN NaN ELSE Num(0))
    ELSE IF y.n = 0 THEN [n |-> Sign(x.n), d |-> 0]
    ELSE RMul(x, [n |-> Sign(y.n) * y.d, d |-> Abs(y.n)])

\* IEEE comparisons: every comparison with NaN is false
RLt(x, y) ==
    /\ ~IsNaN(x)
    /\ ~IsNaN(y)
    /\ IF x.d = 0 \/ y.d = 0
       THEN (IF x.d = 0 THEN x.n ELSE 0) - (IF y.d = 0 THEN y.n ELSE 0) < 0
       ELSE x.n * y.d < y.n * x.d

RGt(x, y) == RLt(y, x)

REq(x, y) == ~IsNaN(x) /\ ~IsNaN(y) /\ x = y

RLe(x, y) == RLt(x, y) \/ REq(x, y)

\* nearest integer to the finite rational x, ties to the even one (Python round)
RoundHalfEven(x) ==
    LET q == x.n \div x.d
        r == x.n - q * x.d
    IN  IF 2 * r < x.d THEN q
        ELSE IF 2 * r > x.d THEN q + 1
        ELSE IF q % 2 = 0 THEN q ELSE q + 1

\* round(x, 2)
Round2(x) == IF x.d = 0 THEN x ELSE Rat(RoundHalfEven(RMul(x, Num(100))), 100)

\* Python's max(a, b): b only when b > a
PyMax(a, b) == IF RGt(b, a) THEN b ELSE a

\* results of a call: a returned value or a raised exception
Value(v) == [kind |-> "value", val |-> v, exc |-> "none"]

Raise(e) == [kind |-> "raise", val |-> NaN, exc |-> e]

-----------------------------------------------------------------------------
(* strategy.py: the indicators.  A series is a sequence of floats; index 1 *)
(* of the model is index 0 of the code.  Prices of a table are in pips     *)
(* (1 pip = 0.0001 of the quote currency).                                 *)

RECURSIVE SeqSum(_)
SeqSum(s) == IF s = <<>> THEN Num(0) ELSE RAdd(s[1], SeqSum(Tail(s)))

\* series.rolling(period).mean(): NaN until `period` observations are in the window
RollingMean(s, period) ==
    [t \in 1..Len(s) |->
        IF t < period THEN NaN
        ELSE RDiv(SeqSum(SubSeq(s, t - period + 1, t)), Num(period))]

\* series.diff(): NaN at the first position
Diff(s) == [t \in 1..Len(s) |-> IF t = 1 THEN NaN ELSE RSub(s[t], s[t - 1])]

\* series.shift(1)
Shift(s) == [t \in 1..Len(s) |-> IF t = 1 THEN NaN ELSE s[t - 1]]

\* the values y[lo..hi] of the recurrence
\* y[t] = (1 - alpha) * y[t-1] + alpha * x[t], y[1] = x[1], given y[lo-1];
\* the range is halved so that a long series needs no deep recursion
RECURSIVE EwmMean(_, _, _, _, _)
EwmMean(series, alpha, lo, hi, prev) ==
    IF lo > hi THEN <<>>
    ELSE IF lo = hi
    THEN << IF lo = 1 THEN series[1]
            ELSE RAdd(RMul(RSub(Num(1), alpha), prev), RMul(alpha, series[lo])) >>
    ELSE LET mid  == (lo + hi) \div 2
             left == EwmMean(series, alpha, lo, mid, prev)
         IN  left \o EwmMean(series, alpha, mid + 1, hi, left[Len(left)])

ema(series, span) == EwmMean(series, Rat(2, span + 1), 1, Len(series), NaN)

\* the code's 1e-9, in pips
RsiEps == Rat(1, 100000)

\* rsi whose gains and losses keep the NaN of the first difference
rsi_nanfirst(series, period) ==
    LET delta == Diff(series)
        up    == [t \in 1..Len(series) |->
                    IF IsNaN(delta[t]) THEN NaN
                    ELSE IF RGt(delta[t], Num(0)) THEN delta[t] ELSE Num(0)]
        down  == [t \in 1..Len(series) |->
                    IF IsNaN(delta[t]) THEN NaN
                    ELSE IF RLt(delta[t], Num(0)) THEN RNeg(delta[t]) ELSE Num(0)]
        gain  == RollingMean(up, period)
        loss  == RollingMean(down, period)
    IN  [t \in 1..Len(series) |->
            LET rs == RDiv(gain[t], RAdd(loss[t], RsiEps))
            IN  RSub(Num(100), RDiv(Num(100), RAdd(Num(1), rs)))]

rsi(series, period) ==
    LET delta == Diff(series)
        \* delta.where(delta > 0, 0): a NaN difference is replaced by 0 as well
        up    == [t \in 1..Len(series) |->
                    IF RGt(delta[t], Num(0)) THEN delta[t] ELSE Num(0)]
        down  == [t \in 1..Len(series) |->
                    IF RLt(delta[t], Num(0)) THEN RNeg(delta[t]) ELSE Num(0)]
        gain  == RollingMean(up, period)
        loss  == RollingMean(down, period)
    IN  [t \in 1..Len(series) |->
            LET rs == RDiv(gain[t], RAdd(loss[t], RsiEps))
            IN  RSub(Num(100), RDiv(Num(100), RAdd(Num(1), rs)))]

Column(table, col) == [t \in 1..Len(table) |-> table[t][col]]

find_engulfing(table) ==
    LET open      == Column(table, "open")
        close     == Column(table, "close")
        prevopen  == Shift(open)
        prevclose == Shift(close)
    IN  [t \in 1..Len(table) |->
            LET bullish == /\ RLt(prevclose[t], prevopen[t])
                           /\ RGt(close[t], open[t])
                           /\ RLt(open[t], prevclose[t])
                           /\ RGt(close[t], prevopen[t])
                bearish == /\ RGt(prevclose[t], prevopen[t])
                           /\ RLt(close[t], open[t])
                           /\ RGt(open[t], prevclose[t])
                           /\ RLt(close[t], prevopen[t])
            IN  bullish \/ bearish]

RAbs(x) == IF x.n < 0 THEN RNeg(x) ELSE x

\* max over a row, NaN entries skipped (DataFrame.max(axis=1))
NanMax3(a, b, c) ==
    LET m2(x, y) == IF IsNaN(x) THEN y
                    ELSE IF IsNaN(y) THEN x
                    ELSE IF RGt(y, x) THEN y ELSE x
    IN  m2(m2(a, b), c)

atr(table, period) ==
    LET high       == Column(table, "high")
        low        == Column(table, "low")
        prev_close == Shift(Column(table, "close"))
        tr == [t \in 1..Len(table) |->
                 NanMax3(RAbs(RSub(high[t], low[t])),
                         RAbs(RSub(high[t], prev_close[t])),
                         RAbs(RSub(low[t], prev_close[t])))]
    IN  RollingMean(tr, period)

h4_bias_stub(table) == [t \in 1..Len(table) |-> TRUE]

spread_filter_stub(table) == [t \in 1..Len(table) |-> TRUE]

risk_guard_stub(sigs) == sigs

-----------------------------------------------------------------------------
(* strategy.py: position sizing and the drawdown guard                     *)

DefaultPipValue == 10

\* position_size without the 0.01 floor
position_size_nofloor(equity, risk_perc, atr_val, pip_value) ==
    LET risk      == RDiv(RMul(equity, risk_perc), Num(100))
        stop_pips == RMul(atr_val, Num(10000))
    IN  IF REq(stop_pips, Num(0)) THEN Value(Num(0))
        ELSE IF REq(RMul(stop_pips, pip_value), Num(0))
             THEN Raise("ZeroDivisionError")
             ELSE Value(Round2(RDiv(risk, RMul(stop_pips, pip_value))))

position_size(equity, risk_perc, atr_val, pip_value) ==
    LET risk      == RDiv(RMul(equity, risk_perc), Num(100))
        stop_pips == RMul(atr_val, Num(10000))
    IN  IF REq(stop_pips, Num(0)) THEN Value(Num(0))
        ELSE IF REq(RMul(stop_pips, pip_value), Num(0))
             THEN Raise("ZeroDivisionError")
             ELSE LET lots == RDiv(risk, RMul(stop_pips, pip_value))
                  IN  Value(PyMax(Rat(1, 100), Round2(lots)))

RECURSIVE SeqMin(_)
SeqMin(s) ==
    IF Len(s) = 1 THEN s[1]
    ELSE LET m == SeqMin(Tail(s)) IN IF RLt(m, s[1]) THEN m ELSE s[1]

daily_drawdown_guard(curve, start_equity, max_dd) ==
    LET dd == RDiv(RSub(start_equity, SeqMin(curve)), start_equity)
    IN  RLe(dd, max_dd)

-----------------------------------------------------------------------------
(* strategy.py: the learned filter.  The classifier is a library outside   *)
(* the repository: `sklearn_ok` says whether its import succeeds, and      *)
(* `predict` is what the fitted model answers for the bars after the       *)
(* split, one label per bar, each a label seen in training.                *)

Range(s) == {s[t] : t \in 1..Len(s)}

DefaultTrainSize == 50

\* rf_filter whose failed import does not fall back to the input: it goes on
\* to the split with no model to ask
rf_filter_nofallback(sigs, train_size, sklearn_ok, predict) ==
    IF Len(sigs) <= train_size THEN Value(sigs)
    ELSE LET y_train == SubSeq(sigs, 1, train_size)
         IN  IF ~sklearn_ok \/ Cardinality(Range(y_train)) < 2
             THEN Value([t \in 1..Len(sigs) |->
                            IF t <= train_size THEN y_train[t] ELSE 0])
             ELSE Value([t \in 1..Len(sigs) |->
                            IF t <= train_size THEN y_train[t]
                            ELSE predict[t - train_size]])

\* rf_filter that keeps the input after the split when the labels are degenerate
rf_filter_keeptail(sigs, train_size, sklearn_ok, predict) ==
    IF ~sklearn_ok THEN Value(sigs)
    ELSE IF Len(sigs) <= train_size THEN Value(sigs)
    ELSE LET y_train == SubSeq(sigs, 1, train_size)
         IN  IF Cardinality(Range(y_train)) < 2
             THEN Value(sigs)
             ELSE Value([t \in 1..Len(sigs) |->
                            IF t <= train_size THEN y_train[t]
                            ELSE predict[t - train_size]])

rf_filter(sigs, train_size, sklearn_ok, predict) ==
    IF ~sklearn_ok THEN Value(sigs)
    ELSE IF Len(sigs) <= train_size THEN Value(sigs)
    ELSE LET y_train == SubSeq(sigs, 1, train_size)
         IN  IF Cardinality(Range(y_train)) < 2
             THEN Value([t \in 1..Len(sigs) |->
                            IF t <= train_size THEN y_train[t] ELSE 0])
             ELSE Value([t \in 1..Len(sigs) |->
                            IF t <= train_size THEN y_train[t]
                            ELSE predict[t - train_size]])

\* the answers model.predict can give: none when no model is fitted
Predictions(sigs, train_size, sklearn_ok) ==
    IF sklearn_ok /\ Len(sigs) > train_size
          /\ Cardinality(Range(SubSeq(sigs, 1, train_size))) >= 2
    THEN [1..(Len(sigs) - train_size) -> Range(SubSeq(sigs, 1, train_size))]
    ELSE {<<>>}

-----------------------------------------------------------------------------
(* strategy.py: generate_signals                                           *)

\* sort_values("datetime").reset_index(drop=True): the row of rank k is the
\* one with k - 1 rows before it, rows of equal datetime in their given order
SortByDatetime(rows) ==
    LET before(m, j) ==
            \/ rows[m].datetime < rows[j].datetime
            \/ rows[m].datetime = rows[j].datetime /\ m < j
        rank == [j \in 1..Len(rows) |->
                    Cardinality({m \in 1..Len(rows) : before(m, j)}) + 1] \o <<>>
    IN  [k \in 1..Len(rows) |->
            rows[CHOOSE j \in 1..Len(rows) : rank[j] = k]] \o <<>>

\* lines 197-207: the sorted copy with its indicator columns
Indicators(prices, p) ==
    LET sorted == SortByDatetime(prices)
        close  == Column(sorted, "close")
        fast   == ema(close, p.ema_fast)
        slow   == ema(close, p.ema_slow)
        r      == rsi(close, p.rsi_period)
        eng    == find_engulfing(sorted)
        bias   == h4_bias_stub(sorted)
        spread == spread_filter_stub(sorted)
        a      == atr(sorted, p.atr_period)
    IN  [t \in 1..Len(sorted) |->
            [datetime |-> sorted[t].datetime, open |-> sorted[t].open,
             high |-> sorted[t].high, low |-> sorted[t].low,
             close |-> sorted[t].close,
             ema_fast |-> fast[t], ema_slow |-> slow[t], rsi |-> r[t],
             engulfing |-> eng[t], h4_bias |-> bias[t], spread_ok |-> spread[t],
             atr |-> a[t]]]

long_entry(row, p) ==
    /\ RGt(row.ema_fast, row.ema_slow)
    /\ RLt(row.rsi, Num(p.rsi_hi))
    /\ row.engulfing
    /\ row.h4_bias
    /\ row.spread_ok

short_entry(row, p) ==
    /\ RLt(row.ema_fast, row.ema_slow)
    /\ RGt(row.rsi, Num(p.rsi_lo))
    /\ row.engulfing
    /\ row.h4_bias
    /\ row.spread_ok

\* a composer whose entries ignore the engulfing flag
EntrySignals_noengulf(d, p) ==
    [t \in 1..Len(d) |->
        IF RLt(d[t].ema_fast, d[t].ema_slow) /\ RGt(d[t].rsi, Num(p.rsi_lo)) THEN -1
        ELSE IF RGt(d[t].ema_fast, d[t].ema_slow) /\ RLt(d[t].rsi, Num(p.rsi_hi))
             THEN 1 ELSE 0]

\* lines 224-226: zeros, then 1 on long entries, then -1 on short entries
EntrySignals(d, p) ==
    [t \in 1..Len(d) |->
        IF short_entry(d[t], p) THEN -1
        ELSE IF long_entry(d[t], p) THEN 1 ELSE 0]

\* the loop's test of the trade cap, off by one
CapReached_late(count, max_trades) == count > max_trades

\* line 241: trade_count >= max_trades
CapReached(count, max_trades) == count >= max_trades

\* lines 247-262: the proposal of bar t
Proposal(d, t, sig, p) ==
    LET price     == d[t].close
        atr_val   == d[t].atr
        direction == IF sig > 0 THEN 1 ELSE -1
        stop   == RSub(price, RMul(RMul(Num(direction), p.atr_sl_mult), atr_val))
        target == RAdd(price, RMul(RMul(Num(direction), p.atr_tp_mult), atr_val))
        \* the table is in pips, position_size takes a price
        size   == position_size(Num(p.equity), p.risk_per_trade,
                                RDiv(atr_val, Num(10000)), Num(DefaultPipValue))
    IN  [time |-> d[t].datetime, signal |-> sig, sl |-> stop, tp |-> target,
         size |-> size.val]

-----------------------------------------------------------------------------
(* fundingpips_reward.py.  A trade record is [pnl, timestamp, start_equity, *)
(* has_start_equity]: pnl and start_equity are whole currency amounts, and *)
(* timestamp is the calendar day, the only part of it the code uses.       *)

\* trades[0].get("start_equity", 10000)
StartEquity(trades) ==
    IF trades[1].has_start_equity THEN trades[1].start_equity ELSE 10000

\* f[1] + ... + f[k]
RECURSIVE SumTo(_, _)
SumTo(f, k) == IF k = 0 THEN 0 ELSE f[k] + SumTo(f, k - 1)

IntSum(s) == SumTo(s, Len(s))

Pnl(trades) == [j \in 1..Len(trades) |-> trades[j].pnl] \o <<>>

PnlSum(trades) == IntSum(Pnl(trades))

calculate_net_profit(trades) ==
    LET start_equity == IF trades # <<>> THEN StartEquity(trades) ELSE 10000
    IN  IF start_equity > 0 THEN Rat(100 * PnlSum(trades), start_equity)
        ELSE Num(0)

\* start_equity + np.cumsum(pnl)
EquityCurve(trades) ==
    LET pnl == Pnl(trades)
    IN  [j \in 1..Len(trades) |-> StartEquity(trades) + SumTo(pnl, j)] \o <<>>

\* np.maximum.accumulate
MaxAccumulate(eq) ==
    [j \in 1..Len(eq) |->
        CHOOSE x \in {eq[k] : k \in 1..j} : \A k \in 1..j : eq[k] <= x] \o <<>>

\* np.max: NaN if any entry is NaN
NpMax(s) ==
    IF \E j \in 1..Len(s) : IsNaN(s[j]) THEN NaN
    ELSE CHOOSE x \in Range(s) : \A j \in 1..Len(s) : ~RGt(s[j], x)

\* (peak - eq) / peak of one curve, then its np.max
CurveDrawdown(eq) ==
    LET peak == MaxAccumulate(eq)
    IN  NpMax([j \in 1..Len(eq) |-> Rat(peak[j] - eq[j], peak[j])] \o <<>>)

\* drawdowns of the curve that starts at the starting equity
calculate_drawdowns_fromstart(trades) ==
    IF Len(trades) = 0 THEN [max_dd |-> Num(0), max_daily_dd |-> Num(0)]
    ELSE LET d == CurveDrawdown(<<StartEquity(trades)>> \o EquityCurve(trades))
         IN  [max_dd |-> d, max_daily_dd |-> d]

calculate_drawdowns(trades) ==
    IF Len(trades) = 0 THEN [max_dd |-> Num(0), max_daily_dd |-> Num(0)]
    ELSE
    LET equity == EquityCurve(trades)
        rows   == [j \in 1..Len(trades) |->
                      [equity |-> equity[j], day |-> trades[j].timestamp]] \o <<>>
        days   == {trades[j].timestamp : j \in 1..Len(trades)}
        group(d) == LET g == SelectSeq(rows, LAMBDA r : r.day = d)
                    IN  [j \in 1..Len(g) |-> g[j].equity] \o <<>>
        \* for _, group in df.groupby("day"), days ascending
        daily[left \in SUBSET days] ==
            IF left = {} THEN Num(0)
            ELSE LET last == CHOOSE d \in left : \A e \in left : e <= d
                 IN  PyMax(daily[left \ {last}], CurveDrawdown(group(last)))
    IN  [max_dd |-> CurveDrawdown(equity), max_daily_dd |-> daily[days]]

\* floor of the square root
RECURSIVE ISqrtIn(_, _, _)
ISqrtIn(x, lo, hi) ==
    IF lo = hi THEN lo
    ELSE LET mid == (lo + hi + 1) \div 2
         IN  IF mid * mid <= x THEN ISqrtIn(x, mid, hi) ELSE ISqrtIn(x, lo, mid - 1)

ISqrt(x) == ISqrtIn(x, 0, 46340)

\* sqrt(252), in thousandths
Sqrt252Milli == 15875

\* The returns are kept in units of 1e-5 and the ratio in thousandths
\* (fixed point, rounded down): the square root has no exact value.
calculate_sharpe(trades) ==
    IF Len(trades) < 2 THEN Num(0)
    ELSE
    LET equity  == EquityCurve(trades)
        m       == Len(trades) - 1
        returns == [j \in 1..m |->
                      ((equity[j + 1] - equity[j]) * 100000) \div equity[j]] \o <<>>
        mean    == IntSum(returns) \div m
        std     == ISqrt(IntSum([j \in 1..m |->
                                    (returns[j] - mean) * (returns[j] - mean)] \o <<>>)
                         \div m)
    IN  IF std = 0 THEN Num(0) ELSE Rat((mean * Sqrt252Milli) \div std, 1000)

win_rate(trades) ==
    IF trades = <<>> THEN Num(0)
    ELSE Rat(100 * Cardinality({j \in 1..Len(trades) : trades[j].pnl > 0}), Len(trades))

\* np.std(pnl) = sqrt(n * sum(p^2) - sum(p)^2) / n, in thousandths (rounded down)
volatility(trades) ==
    IF Len(trades) < 2 THEN Num(0)
    ELSE LET n  == Len(trades)
             sq == IntSum([j \in 1..n |-> trades[j].pnl * trades[j].pnl] \o <<>>)
             su == PnlSum(trades)
         IN  Rat((ISqrt(n * sq - su * su) * 1000) \div n, 1000)

\* pd.to_datetime(list) is a DatetimeIndex, which has no attribute `dt`
trading_days(trades) ==
    IF trades = <<>> THEN Value(Num(0)) ELSE Raise("AttributeError")

\* lines 81-125 of evaluate: the gate and the score
EvaluateBody(trades) ==
    LET n_trades   == Len(trades)
        n_days     == trading_days(trades)
        net_profit == calculate_net_profit(trades)
        dds        == calculate_drawdowns(trades)
        dd         == dds.max_dd
        daily_dd   == dds.max_daily_dd
    IN  IF n_days.kind = "raise" THEN n_days
        ELSE IF \/ n_trades < 35
                \/ RLt(n_days.val, Num(5))
                \/ RLt(net_profit, Num(10))
                \/ RGt(dd, Rat(6, 100))
                \/ RGt(daily_dd, Rat(3, 100))
        THEN Value(Num(-1000))
        ELSE
        LET sharpe == calculate_sharpe(trades)
            win    == win_rate(trades)
            vol    == volatility(trades)
            p1 == IF RGt(dd, Rat(4, 100))
                  THEN RMul(RMul(Num(10), RSub(dd, Rat(4, 100))), Num(100)) ELSE Num(0)
            p2 == IF RGt(vol, Rat(5, 1000))
                  THEN RMul(RSub(vol, Rat(5, 1000)), Num(1000)) ELSE Num(0)
            p3 == IF n_trades < 40 THEN Num(5 * (40 - n_trades)) ELSE Num(0)
            b1 == IF RGt(sharpe, Rat(3, 2))
                  THEN RMul(Num(10), RSub(sharpe, Rat(3, 2))) ELSE Num(0)
            b2 == IF RGt(win, Num(60)) THEN RDiv(RSub(win, Num(60)), Num(2)) ELSE Num(0)
            penalty == RAdd(RAdd(p1, p2), p3)
            bonus   == RAdd(b1, b2)
        IN  Value(RAdd(RSub(net_profit, penalty), bonus))

\* evaluate without its two early returns
evaluate_nocheck(t) ==
    IF t.none THEN Raise("TypeError") ELSE EvaluateBody(t.list)

\* evaluate(trades): t.none says that trades is None
evaluate(t) ==
    IF t.none THEN Value(Num(0))
    ELSE IF Len(t.list) = 0 THEN Value(Num(0))
    ELSE EvaluateBody(t.list)

-----------------------------------------------------------------------------
(* data_prep.py: the loader's preprocessing.  A row is a bar's datetime in  *)
(* minutes and its close; a missing cell is NaN.                           *)

BarMinutes == 15

\* line 87: minutes since the previous row, 15 for the first row
GapMin(rows) ==
    [t \in 1..Len(rows) |->
        IF t = 1 THEN BarMinutes ELSE rows[t].datetime - rows[t - 1].datetime]

\* line 91: df.drop(index=...).reset_index(drop=True)
RECURSIVE DropIndex(_, _, _)
DropIndex(rows, idx, t) ==
    IF t > Len(rows) THEN <<>>
    ELSE (IF t \in idx THEN <<>> ELSE <<rows[t]>>) \o DropIndex(rows, idx, t + 1)

\* line 94: df.ffill() on the close column
RECURSIVE Ffill(_)
Ffill(rows) ==
    IF Len(rows) <= 1 THEN rows
    ELSE LET head == Ffill(SubSeq(rows, 1, Len(rows) - 1))
             last == rows[Len(rows)]
         IN  head \o << IF IsNaN(last.close)
                         THEN [last EXCEPT !.close = head[Len(head)].close]
                         ELSE last >>

forward_fill_gaps(table) ==
    LET sorted      == SortByDatetime(table)
        gap_min     == GapMin(sorted)
        big_gap_idx == {t \in 1..Len(sorted) : gap_min[t] > BarMinutes}
    IN  Ffill(DropIndex(sorted, big_gap_idx, 1))

\* lines 160-174, for a table already read or generated
load_data(table) == forward_fill_gaps(table)

-----------------------------------------------------------------------------
(* Inputs                                                                  *)

MaxBars == 3

\* candles (prices in pips): two red, one green, one flat
Candles ==
    { [open |-> Num(11002), high |-> Num(11003), low |-> Num(11001), close |-> Num(11001)],
      [open |-> Num(11000), high |-> Num(11003), low |-> Num(11000), close |-> Num(11003)],
      [open |-> Num(11004), high |-> Num(11004), low |-> Num(10998), close |-> Num(10999)],
      [open |-> Num(11001), high |-> Num(11001), low |-> Num(11001), close |-> Num(11001)] }

Candles_flat ==
    [open |-> Num(11001), high |-> Num(11001), low |-> Num(11001), close |-> Num(11001)]

\* a table of n candles stamped 1..n, handed over in time order or reversed
Stamp(cs, reversed) ==
    [t \in 1..Len(cs) |->
        LET k == IF reversed THEN Len(cs) + 1 - t ELSE t
        IN  [datetime |-> k, open |-> cs[k].open, high |-> cs[k].high,
             low |-> cs[k].low, close |-> cs[k].close]]

PriceTables ==
    UNION { { Stamp(cs, rev) : cs \in [1..n -> Candles], rev \in BOOLEAN } :
            n \in 0..MaxBars }

ParamSets ==
    { [ema_fast |-> e[1], ema_slow |-> e[2],
       rsi_period |-> r[1], rsi_hi |-> r[2], rsi_lo |-> r[3],
       atr_period |-> r[4], atr_sl_mult |-> Num(2), atr_tp_mult |-> Num(3),
       equity |-> q[1], risk_per_trade |-> Rat(1, 2), max_trades |-> q[2],
       start_equity |-> 10000, max_dd |-> Rat(3, 100)] :
      e \in {<<1, 2>>, <<2, 1>>},
      r \in {<<1, 101, -1, 1>>, <<2, 70, 30, 3>>},
      q \in {<<10000, 0>>, <<10000, 1>>, <<10000, 2>>, <<9000, 2>>} }

NoParams == [max_trades |-> 0]

MaxTail == 2

\* tables longer than the filter's training slice: as many flat candles as
\* the slice holds, then up to MaxTail candles that are not flat
LongTables ==
    UNION { { Stamp([t \in 1..DefaultTrainSize |-> Candles_flat] \o cs, FALSE) :
                cs \in [1..n -> Candles \ {Candles_flat}] } :
            n \in 1..MaxTail }

LongParamSets ==
    { p \in ParamSets : /\ p.ema_fast = 1 /\ p.rsi_period = 1
                        /\ p.equity = 10000 /\ p.max_trades = 2 }

-----------------------------------------------------------------------------
(* The calls                                                               *)

\* a call starts from the state no earlier call has left a trace in
Idle ==
    /\ pc = "idle"
    /\ fn = "none"
    /\ UNCHANGED <<pc, params, df, signals, i, trade_count, result, equity_curve,
                   sklearn>>

\* lines 197-226 of generate_signals: indicators and the composed signal
GS_Call ==
    /\ pc = "idle"
    /\ fn = "none"
    /\ \E prices \in PriceTables, p \in ParamSets :
          LET d == Indicators(prices, p)
          IN  /\ params' = p
              /\ df' = d
              /\ signals' = EntrySignals(d, p)
    /\ pc' = "filter"
    /\ fn' = "none" /\ args' = <<>> /\ ret' = <<>>
    /\ UNCHANGED <<i, trade_count, result, equity_curve, sklearn>>

\* the same lines for a table longer than the filter's training slice
GS_CallLong ==
    /\ pc = "idle"
    /\ fn = "none"
    /\ \E prices \in LongTables, p \in LongParamSets :
          LET d == Indicators(prices, p)
          IN  /\ params' = p
              /\ df' = d
              /\ signals' = EntrySignals(d, p)
    /\ pc' = "filter"
    /\ fn' = "none" /\ args' = <<>> /\ ret' = <<>>
    /\ UNCHANGED <<i, trade_count, result, equity_curve, sklearn>>

\* the filter step without the learned filter
GS_Filter_unfiltered ==
    /\ pc = "filter"
    /\ \E ok \in BOOLEAN :
          /\ signals' = risk_guard_stub(signals)
          /\ sklearn' = IF ok THEN "imported" ELSE "missing"
    /\ trade_count' = 0
    /\ result' = <<>>
    /\ equity_curve' = <<Num(params.equity)>>
    /\ i' = 1
    /\ pc' = "loop"
    /\ UNCHANGED <<fn, args, ret, params, df>>

\* lines 228-239: the learned filter, the risk stub, the loop's locals
GS_Filter ==
    /\ pc = "filter"
    /\ \E ok \in BOOLEAN :
          \E predict \in Predictions(signals, DefaultTrainSize, ok) :
             /\ signals' = risk_guard_stub(
                               rf_filter(signals, DefaultTrainSize, ok, predict).val)
             /\ sklearn' = IF ok THEN "imported" ELSE "missing"
    /\ trade_count' = 0
    /\ result' = <<>>
    /\ equity_curve' = <<Num(params.equity)>>
    /\ i' = 1
    /\ pc' = "loop"
    /\ UNCHANGED <<fn, args, ret, params, df>>

\* the loop body with `continue` where the code has `break`
GS_LoopStep_skip ==
    /\ pc = "loop"
    /\ i <= Len(signals)
    /\ LET sig == signals[i] IN
       IF sig = 0 \/ CapReached(trade_count, params.max_trades)
       THEN UNCHANGED <<trade_count, result, equity_curve>>
       ELSE IF IsNaN(df[i].atr) \/ REq(df[i].atr, Num(0))
       THEN UNCHANGED <<trade_count, result, equity_curve>>
       ELSE IF ~daily_drawdown_guard(equity_curve, Num(params.start_equity), params.max_dd)
       THEN UNCHANGED <<trade_count, result, equity_curve>>
       ELSE /\ result' = Append(result, Proposal(df, i, sig, params))
            /\ trade_count' = trade_count + 1
            /\ equity_curve' = Append(equity_curve, Num(params.equity))
    /\ i' = i + 1
    /\ pc' = "loop"
    /\ UNCHANGED <<fn, args, ret, params, df, signals, sklearn>>

\* the loop body without the test of the ATR
GS_LoopStep_anyatr ==
    /\ pc = "loop"
    /\ i <= Len(signals)
    /\ LET sig == signals[i] IN
       IF sig = 0 \/ CapReached(trade_count, params.max_trades)
       THEN /\ i' = i + 1 /\ pc' = "loop"
            /\ UNCHANGED <<trade_count, result, equity_curve>>
       ELSE IF ~daily_drawdown_guard(equity_curve, Num(params.start_equity), params.max_dd)
       THEN /\ pc' = "break"
            /\ UNCHANGED <<i, trade_count, result, equity_curve>>
       ELSE /\ result' = Append(result, Proposal(df, i, sig, params))
            /\ trade_count' = trade_count + 1
            /\ equity_curve' = Append(equity_curve, Num(params.equity))
            /\ i' = i + 1 /\ pc' = "loop"
    /\ UNCHANGED <<fn, args, ret, params, df, signals, sklearn>>

\* lines 240-265: one iteration of the entry loop
GS_LoopStep ==
    /\ pc = "loop"
    /\ i <= Len(signals)
    /\ LET sig == signals[i] IN
       IF sig = 0 \/ CapReached(trade_count, params.max_trades)
       THEN /\ i' = i + 1 /\ pc' = "loop"
            /\ UNCHANGED <<trade_count, result, equity_curve>>
       ELSE IF IsNaN(df[i].atr) \/ REq(df[i].atr, Num(0))
       THEN /\ i' = i + 1 /\ pc' = "loop"
            /\ UNCHANGED <<trade_count, result, equity_curve>>
       ELSE IF ~daily_drawdown_guard(equity_curve, Num(params.start_equity), params.max_dd)
       THEN /\ pc' = "break"
            /\ UNCHANGED <<i, trade_count, result, equity_curve>>
       ELSE /\ result' = Append(result, Proposal(df, i, sig, params))
            /\ trade_count' = trade_count + 1
            /\ equity_curve' = Append(equity_curve, Num(params.equity))
            /\ i' = i + 1 /\ pc' = "loop"
    /\ UNCHANGED <<fn, args, ret, params, df, signals, sklearn>>

\* line 266: return result; the locals are dropped
GS_Return ==
    /\ \/ pc = "loop" /\ i > Len(signals)
       \/ pc = "break"
    /\ fn' = "generate_signals"
    /\ args' = params
    /\ ret' = result
    /\ pc' = "idle"
    /\ params' = NoParams
    /\ df' = <<>> /\ signals' = <<>> /\ i' = 0 /\ trade_count' = 0
    /\ result' = <<>> /\ equity_curve' = <<>>
    /\ sklearn' = "untried"

Equities == {Num(-10000), Num(0), Num(1), Num(5000), Num(10000)}

RiskPercents == {Num(-1), Num(0), Rat(1, 2), Rat(3, 4), Num(5)}

AtrValues ==
    {NaN, Num(0), Rat(1, 10000), Rat(15, 10000), Rat(3, 20000), Rat(40, 10000),
     Rat(-15, 10000), Num(1)}

PositionSizeCall ==
    /\ Idle
    /\ \E equity \in Equities, risk_perc \in RiskPercents, atr_val \in AtrValues :
          /\ args' = [equity |-> equity, risk_perc |-> risk_perc,
                      atr_val |-> atr_val, pip_value |-> Num(DefaultPipValue)]
          /\ ret' = position_size(equity, risk_perc, atr_val, Num(DefaultPipValue))
    /\ fn' = "position_size"

MaxSignals == 4

MaxTrain == 3

SignalArrays == UNION { [1..n -> {-1, 0, 1}] : n \in 0..MaxSignals }

RfFilterCall ==
    /\ Idle
    /\ \E sigs \in SignalArrays, train_size \in 0..MaxTrain, ok \in BOOLEAN :
          \E predict \in Predictions(sigs, train_size, ok) :
             /\ args' = [signals |-> sigs, train_size |-> train_size,
                         sklearn_ok |-> ok, predict |-> predict]
             /\ ret' = rf_filter(sigs, train_size, ok, predict)
    /\ fn' = "rf_filter"

MaxSeries == 4

MaxPeriod == 3

SeriesValues == {Num(11000), Num(11001), Num(11003)}

RsiCall ==
    /\ Idle
    /\ \E n \in 0..MaxSeries, period \in 1..MaxPeriod :
          \E series \in [1..n -> SeriesValues] :
             /\ args' = [series |-> series, period |-> period]
             /\ ret' = rsi(series, period)
    /\ fn' = "rsi"

\* A log of n trades over `days` calendar days, in time order: s trades of
\* pnl w1, one trade of pnl -l, then trades of pnl w2.
TradeLog(n, days, s, w1, l, w2, given) ==
    [j \in 1..n |->
        [pnl |-> IF j <= s THEN w1 ELSE IF j = s + 1 THEN -l ELSE w2,
         timestamp |-> 1 + ((j - 1) * days) \div n,
         start_equity |-> 10000,
         has_start_equity |-> given]]

TradeLogs ==
    { TradeLog(n, days, sw[1], sw[2], l, w2, given) :
        n \in {30, 35, 40}, days \in {4, 8},
        sw \in {<<4, 125>>, <<5, 100>>, <<25, 16>>},
        l \in {0, 208, 420, 1050}, w2 \in {50, 72}, given \in BOOLEAN }

EvaluateCall ==
    /\ Idle
    /\ \E t \in {[none |-> TRUE, list |-> <<>>], [none |-> FALSE, list |-> <<>>]}
              \cup {[none |-> FALSE, list |-> log] : log \in TradeLogs} :
          /\ args' = t
          /\ ret' = evaluate(t)
    /\ fn' = "evaluate"

MaxRows == 3

RowTimes == {0, 15, 60, 75}

RawTables ==
    UNION { [1..n -> [datetime : RowTimes, close : {Num(11000), NaN}]] :
            n \in 0..MaxRows }

LoadDataCall ==
    /\ Idle
    /\ \E table \in RawTables :
          /\ args' = [df |-> table]
          /\ ret' = load_data(table)
    /\ fn' = "load_data"

MaxLog == 3

\* short logs: any order of losses and gains over two days
ShortLogs ==
    UNION { [1..n -> [pnl : {-12000, -2000, 0, 500}, timestamp : {1, 2},
                      start_equity : {10000}, has_start_equity : {TRUE}]] :
            n \in 0..MaxLog }

CalculateDrawdownsCall ==
    /\ Idle
    /\ \E trades \in ShortLogs :
          /\ args' = [trades |-> trades]
          /\ ret' = calculate_drawdowns(trades)
    /\ fn' = "calculate_drawdowns"

\* nothing of a call survives it: the next call starts afresh
Forget ==
    /\ pc = "idle"
    /\ fn # "none"
    /\ fn' = "none" /\ args' = <<>> /\ ret' = <<>>
    /\ UNCHANGED <<pc, params, df, signals, i, trade_count, result, equity_curve,
                   sklearn>>

Init ==
    /\ fn = "none" /\ args = <<>> /\ ret = <<>>
    /\ pc = "idle"
    /\ params = NoParams
    /\ df = <<>> /\ signals = <<>> /\ i = 0 /\ trade_count = 0
    /\ result = <<>> /\ equity_curve = <<>>
    /\ sklearn = "untried"

Next ==
    \/ GS_Call
    \/ GS_CallLong
    \/ GS_Filter
    \/ GS_LoopStep
    \/ GS_Return
    \/ PositionSizeCall
    \/ RfFilterCall
    \/ RsiCall
    \/ EvaluateCall
    \/ LoadDataCall
    \/ CalculateDrawdownsCall
    \/ Forget

Spec == Init /\ [][Next]_vars

-----------------------------------------------------------------------------
(* The claims                                                              *)

\* the number of distinct calendar days among the trade timestamps
DistinctDays(trades) == Cardinality({trades[j].timestamp : j \in 1..Len(trades)})

GateViolated(trades) ==
    \/ Len(trades) < 35
    \/ DistinctDays(trades) < 5
    \/ RLt(calculate_net_profit(trades), Num(10))
    \/ RGt(calculate_drawdowns(trades).max_dd, Rat(6, 100))
    \/ RGt(calculate_drawdowns(trades).max_daily_dd, Rat(3, 100))

\* C1: evaluate returns exactly -1000 for every non-empty trade log that
\* violates a hard constraint (fewer than 35 trades, fewer than 5 distinct
\* days, net profit below 10%, overall drawdown above 6%, or a day's
\* drawdown above 3%).
C1_GateSentinel ==
    (fn = "evaluate" /\ ~args.none /\ Len(args.list) > 0 /\ GateViolated(args.list))
        => ret = Value(Num(-1000))

\* C2: a log that passes the gate with 40 trades, net profit 12%, overall
\* drawdown 2%, Sharpe above 1.5 and win rate above 60% is rewarded with
\* more than 12.
C2_RewardAbove12 ==
    (/\ fn = "evaluate" /\ ~args.none /\ Len(args.list) = 40
     /\ ~GateViolated(args.list)
     /\ calculate_net_profit(args.list) = Num(12)
     /\ calculate_drawdowns(args.list).max_dd = Rat(2, 100)
     /\ RGt(calculate_sharpe(args.list), Rat(3, 2))
     /\ RGt(win_rate(args.list), Num(60)))
        => (ret.kind = "value" /\ RGt(ret.val, Num(12)))

\* C3: evaluate returns exactly 0.0, without raising, for an empty trade log
\* and for an absent one; 0.0 is neither the sentinel nor a score.
C3_EmptyIsZero ==
    (fn = "evaluate" /\ (args.none \/ Len(args.list) = 0))
        => (ret.kind = "value" /\ ret.val = Num(0) /\ ret.val # Num(-1000))

C3_Witness ==
    fn = "evaluate" /\ ~args.none /\ args.list = <<>> /\ ret = Value(Num(0))

\* C4: in the entry loop the number of emitted proposals equals the trade
\* counter and never exceeds max_trades, the counter is 0 when the loop
\* starts, and the returned list has at most max_trades proposals.
C4_TradeCap ==
    /\ pc \in {"loop", "break"} =>
          /\ Len(result) = trade_count
          /\ trade_count <= params.max_trades
          /\ (i = 1 => trade_count = 0)
    /\ fn = "generate_signals" => Len(ret) <= args.max_trades

\* a bar with a non-zero signal and a valid ATR meets a full trade counter
C4_Witness ==
    /\ pc = "loop" /\ i <= Len(signals)
    /\ signals[i] # 0 /\ ~IsNaN(df[i].atr) /\ df[i].atr # Num(0)
    /\ params.max_trades >= 1 /\ trade_count = params.max_trades

\* the bar the loop is at is a candidate on which the guard reports a breach
BreachAtCandidate ==
    /\ pc = "loop" /\ i <= Len(signals)
    /\ signals[i] # 0
    /\ trade_count < params.max_trades
    /\ ~IsNaN(df[i].atr) /\ df[i].atr # Num(0)
    /\ LET lowest == CHOOSE x \in Range(equity_curve) :
                        \A y \in Range(equity_curve) : ~RLt(y, x)
           start  == Num(params.start_equity)
       IN  ~RLe(RDiv(RSub(start, lowest), start), params.max_dd)

\* C5: once the drawdown guard reports a breach at a candidate bar the loop
\* ends there (the bar is not skipped), nothing is emitted for that bar or
\* any later one, and the proposals emitted before are what is returned.
C5_BreachEndsLoop ==
    [][/\ BreachAtCandidate => (pc' = "break" /\ result' = result /\ i' = i)
       /\ pc = "break" => (pc' = "idle" /\ ret' = result)]_vars

\* the loop has ended on a breach with a non-zero signal still ahead
C5_Witness ==
    /\ pc = "break"
    /\ \E k \in (i + 1)..Len(signals) : signals[k] # 0

SingleClassPrefix(sigs, train_size) ==
    Cardinality(Range(SubSeq(sigs, 1, train_size))) <= 1

ZeroAfterSplit(sigs, train_size, out) ==
    /\ Len(out) = Len(sigs)
    /\ \A t \in 1..Len(sigs) :
          IF t <= train_size THEN out[t] = sigs[t] ELSE out[t] = 0

\* C6 as stated: for every signal array longer than train_size whose first
\* train_size entries carry one class, rf_filter returns an array of the same
\* length that is 0 from train_size on and equals the input before it.
C6_SingleClassZeros ==
    (/\ fn = "rf_filter"
     /\ Len(args.signals) > args.train_size
     /\ SingleClassPrefix(args.signals, args.train_size))
        => (ret.kind = "value"
            /\ ZeroAfterSplit(args.signals, args.train_size, ret.val))

\* C6 amended: the same, when the classifier dependency can be imported.
C6_SingleClassZerosImportable ==
    (/\ fn = "rf_filter"
     /\ args.sklearn_ok
     /\ Len(args.signals) > args.train_size
     /\ SingleClassPrefix(args.signals, args.train_size))
        => (ret.kind = "value"
            /\ ZeroAfterSplit(args.signals, args.train_size, ret.val))

\* a non-zero signal after a one-class training slice has been zeroed
C6_Witness ==
    /\ fn = "rf_filter" /\ args.sklearn_ok
    /\ args.train_size >= 1
    /\ Len(args.signals) > args.train_size
    /\ SingleClassPrefix(args.signals, args.train_size)
    /\ args.signals[Len(args.signals)] # 0
    /\ ret.val[Len(args.signals)] = 0

\* C7: rf_filter returns its input unchanged, without raising, whenever the
\* classifier dependency cannot be imported or the input is not longer than
\* train_size.
C7_IdentityFallback ==
    (fn = "rf_filter"
     /\ (~args.sklearn_ok \/ Len(args.signals) <= args.train_size))
        => (ret.kind = "value" /\ ret.val = args.signals)

\* the import fails on an input the filter would otherwise have changed
C7_Witness ==
    /\ fn = "rf_filter" /\ ~args.sklearn_ok
    /\ Len(args.signals) > args.train_size
    /\ SingleClassPrefix(args.signals, args.train_size)
    /\ args.signals[Len(args.signals)] # 0
    /\ ret = Value(args.signals)

\* C8: position_size (pip_value 10) never raises, returns exactly 0.0 when
\* the ATR is 0, and otherwise returns at least 0.01: lots rounded to two
\* decimals, or 0.01 when that is smaller (or lots is no number), where
\* lots = (equity * risk_pct / 100) / (atr * 10000 * 10).
C8_PositionSize ==
    fn = "position_size" =>
        LET lots == RDiv(RDiv(RMul(args.equity, args.risk_perc), Num(100)),
                         RMul(RMul(args.atr_val, Num(10000)), Num(10)))
            r    == ret.val
        IN  /\ ret.kind = "value"
            /\ args.atr_val = Num(0) => r = Num(0)
            /\ args.atr_val # Num(0) =>
                  /\ RLe(Rat(1, 100), r)
                  /\ 100 % r.d = 0
                  /\ \/ r = Rat(1, 100) /\ ~RGt(lots, Rat(3, 200))
                     \/ /\ RGt(r, Rat(1, 100))
                        /\ RLe(RAbs(RSub(lots, r)), Rat(1, 200))

\* a negative risk budget is floored to 0.01
C8_Witness ==
    /\ fn = "position_size"
    /\ args.atr_val = Rat(15, 10000)
    /\ RLt(RMul(args.equity, args.risk_perc), Num(0))
    /\ ret = Value(Rat(1, 100))

\* C9: before the learned filter, the signal of every bar of the time-sorted
\* table is +1 exactly when fast EMA > slow EMA, RSI < rsi_hi and the bar is
\* engulfing, -1 exactly when fast EMA < slow EMA, RSI > rsi_lo and the bar
\* is engulfing, and 0 otherwise; no bar meets both, and a bar with an
\* undefined indicator or without predecessor gets 0.
C9_ComposedSignal ==
    pc = "filter" =>
        /\ Len(signals) = Len(df)
        /\ \A t \in 1..(Len(df) - 1) : df[t].datetime <= df[t + 1].datetime
        /\ \A t \in 1..Len(df) :
              LET long  == /\ RGt(df[t].ema_fast, df[t].ema_slow)
                           /\ RLt(df[t].rsi, Num(params.rsi_hi))
                           /\ df[t].engulfing
                  short == /\ RLt(df[t].ema_fast, df[t].ema_slow)
                           /\ RGt(df[t].rsi, Num(params.rsi_lo))
                           /\ df[t].engulfing
              IN  /\ signals[t] \in {-1, 0, 1}
                  /\ signals[t] = 1 <=> long
                  /\ signals[t] = -1 <=> short
                  /\ ~(long /\ short)
                  /\ (IsNaN(df[t].ema_fast) \/ IsNaN(df[t].ema_slow)
                         \/ IsNaN(df[t].rsi) \/ t = 1) => signals[t] = 0

\* one table with a long entry, a short entry and a bar in the RSI warm-up
C9_Witness ==
    /\ pc = "filter"
    /\ \E t \in 1..Len(signals) : signals[t] = 1
    /\ \E t \in 1..Len(signals) : signals[t] = -1
    /\ \E t \in 1..Len(df) : IsNaN(df[t].rsi)

\* C10 as stated: rsi(series, period) is NaN at each of the first `period`
\* positions and defined at every later one.
C10_RsiWarmup ==
    fn = "rsi" =>
        \A t \in 1..Len(args.series) :
            IF t <= args.period THEN IsNaN(ret[t]) ELSE ~IsNaN(ret[t])

\* C10 amended: rsi(series, period) is NaN at each of the first period - 1
\* positions and defined at every later one.
C10_RsiWarmupShort ==
    fn = "rsi" =>
        /\ Len(ret) = Len(args.series)
        /\ \A t \in 1..Len(args.series) :
              IF t <= args.period - 1 THEN IsNaN(ret[t]) ELSE ~IsNaN(ret[t])

\* the value at position `period` is defined, the one before it is not
C10_Witness ==
    /\ fn = "rsi" /\ args.period >= 2 /\ Len(args.series) > args.period
    /\ IsNaN(ret[args.period - 1])
    /\ ~IsNaN(ret[args.period])

\* C11: the table load_data returns is sorted ascending by datetime and is
\* gap-free: no two consecutive rows are more than one bar interval
\* (15 minutes) apart.
C11_GapFree ==
    fn = "load_data" =>
        \A t \in 1..(Len(ret) - 1) :
            /\ ret[t].datetime <= ret[t + 1].datetime
            /\ ret[t + 1].datetime - ret[t].datetime <= 15

\* C12: every proposal of generate_signals has signal -1 or +1 and a size of
\* at least 0.01 lots, and stems from a bar already visited whose filtered
\* signal is that non-zero signal and whose ATR is a number other than 0; so
\* has every proposal of the returned list.
C12_ProposalShape ==
    /\ pc \in {"loop", "break"} =>
          \A k \in 1..Len(result) :
              /\ result[k].signal \in {-1, 1}
              /\ RLe(Rat(1, 100), result[k].size)
              /\ \E t \in 1..Len(df) :
                    /\ t <= i
                    /\ df[t].datetime = result[k].time
                    /\ signals[t] = result[k].signal
                    /\ ~IsNaN(df[t].atr)
                    /\ df[t].atr # Num(0)
    /\ fn = "generate_signals" =>
          \A k \in 1..Len(ret) :
              /\ ret[k].signal \in {-1, 1}
              /\ RLe(Rat(1, 100), ret[k].size)

\* a proposal has been emitted, and a bar with a non-zero signal but no ATR
\* yet has been passed over
C12_Witness ==
    /\ pc = "loop"
    /\ Len(result) >= 1
    /\ \E t \in 1..Len(df) :
          t < i /\ signals[t] # 0 /\ IsNaN(df[t].atr)

\* the running call has a table of more than 50 bars, the composer's signal
\* is 0 on each of the first 50, and the classifier has been imported
ZeroPrefixFiltered ==
    /\ pc \in {"loop", "break"}
    /\ sklearn = "imported"
    /\ Len(df) > 50
    /\ \A t \in 1..50 : EntrySignals(df, params)[t] = 0

\* C13: generate_signals filters with train_size 50 and the composer's own
\* signals as labels, so on a table of more than 50 bars whose first 50
\* composed signals are 0 (classifier importable) no proposal is ever emitted
\* and the returned list is empty, whatever the composer says later.
C13_ZeroPrefixSilences ==
    [][ZeroPrefixFiltered =>
           /\ result = <<>>
           /\ \A t \in 1..Len(signals) : signals[t] = 0
           /\ pc' = "idle" => ret' = <<>>]_vars

\* the loop has passed a bar after the 50th on which the composer gave a
\* non-zero signal, and nothing was emitted
C13_Witness ==
    /\ ZeroPrefixFiltered
    /\ i > Len(signals)
    /\ \E t \in 51..Len(df) : EntrySignals(df, params)[t] # 0
    /\ result = <<>>

\* equity after trade j of a log
EquityAfter(trades, j) == StartEquity(trades) + SumTo(Pnl(trades), j)

\* the largest relative fall from an earlier (or the same) post-trade equity
\* to a later one, over the pairs of trades that `pair` admits
IsLargestFall(trades, pair(_, _), dd) ==
    LET fall(k, j) == Rat(EquityAfter(trades, k) - EquityAfter(trades, j),
                          EquityAfter(trades, k))
        pairs == {kj \in (1..Len(trades)) \X (1..Len(trades)) :
                     kj[1] <= kj[2] /\ pair(kj[1], kj[2])}
    IN  /\ \A kj \in pairs : RLe(fall(kj[1], kj[2]), dd)
        /\ \E kj \in pairs : fall(kj[1], kj[2]) = dd

\* C14: while equity stays positive, calculate_drawdowns returns the largest
\* fall between post-trade equity values (overall: any two trades in log
\* order; per day: two trades of the same day); the starting equity is no
\* point of the curve.  So a log whose pnl is non-negative on every trade
\* after the first has overall and per-day drawdown 0, whatever the first
\* trade loses, and neither drawdown condition of the gate (above 6%, above
\* 3%) is met.
C14_PostTradePointsOnly ==
    (/\ fn = "calculate_drawdowns"
     /\ Len(args.trades) > 0
     /\ \A j \in 1..Len(args.trades) : EquityAfter(args.trades, j) > 0)
        => /\ IsLargestFall(args.trades, LAMBDA k, j : TRUE, ret.max_dd)
           /\ IsLargestFall(args.trades,
                            LAMBDA k, j : args.trades[k].timestamp
                                              = args.trades[j].timestamp,
                            ret.max_daily_dd)
           /\ (\A j \in 2..Len(args.trades) : args.trades[j].pnl >= 0)
                  => /\ ret.max_dd = Num(0)
                     /\ ret.max_daily_dd = Num(0)
                     /\ ~RGt(ret.max_dd, Rat(6, 100))
                     /\ ~RGt(ret.max_daily_dd, Rat(3, 100))

\* the first trade loses 20% of the starting equity, later trades gain, and
\* both drawdowns are 0
C14_Witness ==
    /\ fn = "calculate_drawdowns"
    /\ Len(args.trades) >= 2
    /\ args.trades[1].pnl = -2000
    /\ \A j \in 2..Len(args.trades) : args.trades[j].pnl > 0
    /\ ret = [max_dd |-> Num(0), max_daily_dd |-> Num(0)]

=============================================================================
